---- MODULE Spec2Model ----
(***************************************************************************)
(* State-machine model of src/job/mmdb_downloader.rs: the background job   *)
(* that keeps the MaxMind city database on disk and the global             *)
(* MAXMIND_DB_CLIENT / GEOIP_TABLE handles up to date.                     *)
(***************************************************************************)
EXTENDS Integers, Sequences, FiniteSets, TLC

\* ------------------------------------------------------------------ bounds
\* Number of interval ticks the model follows.
MaxTicks == 2
\* Longest artifact body, in chunks, that the artifact URL serves.
MaxChunks == 2

\* ------------------------------------------------------------------ values
\* A chunk of the artifact: a data section or the trailing metadata section.
Chunk == {"data", "meta"}

RECURSIVE SeqsUpTo(_, _)
SeqsUpTo(S, n) ==
    IF n = 0 THEN {<<>>}
    ELSE LET shorter == SeqsUpTo(S, n - 1)
         IN  shorter \cup {Append(s, c) : s \in {t \in shorter : Len(t) = n - 1}, c \in S}

\* Every byte stream the artifact URL may serve.
Bodies == SeqsUpTo(Chunk, MaxChunks)

\* A path of the filesystem: absent, or a file with its bytes.
Absent == [exists |-> FALSE, bytes |-> <<>>]
FileOf(b) == [exists |-> TRUE, bytes |-> b]

\* Option<MaxmindClient>: None, or Some(instance). An instance is identified
\* by the number of the publish that created it and carries the bytes it was
\* parsed from. InFlux is the content of the cell while an assignment under
\* the write lock is in progress.
None == [tag |-> "None", pub |-> 0, data |-> <<>>, complete |-> TRUE]
InFlux == [tag |-> "InFlux", pub |-> 0, data |-> <<>>, complete |-> FALSE]
Some(n, d, c) == [tag |-> "Some", pub |-> n, data |-> d, complete |-> c]

\* Option<Geoip>: None, or the table built by the publish of that number.
NoGeoip == [tag |-> "None", pub |-> 0]
SomeGeoip(n) == [tag |-> "Some", pub |-> n]

\* ------------------------------------------------------------------ paths
MMDB_CITY_FILE_NAME == <<"GeoLite2-City.mmdb">>

\* CONFIG.common.mmdb_data_dir, without and with a trailing separator.
DataDirs == {<<"mmdb">>, <<"mmdb", "/">>}

\* The file a path string names: consecutive separators count as one.
RECURSIVE Normalize(_)
Normalize(p) ==
    IF Len(p) < 2 THEN p
    ELSE IF p[1] = "/" /\ p[2] = "/" THEN Normalize(Tail(p))
    ELSE <<p[1]>> \o Normalize(Tail(p))

\* format!("{}{}", dir, MMDB_CITY_FILE_NAME) of run_download_files
TickPath(dir) == Normalize(dir \o MMDB_CITY_FILE_NAME)
\* format!("{}/{}", dir, MMDB_CITY_FILE_NAME) of run
StartupPath(dir) == Normalize(dir \o <<"/">> \o MMDB_CITY_FILE_NAME)

Paths == {TickPath(d) : d \in DataDirs} \cup {StartupPath(d) : d \in DataDirs}

\* ------------------------------------------------------------------ digest
Whitespace == {" ", "\n"}

\* str::trim: drop leading and trailing whitespace.
RECURSIVE TrimStart(_)
TrimStart(s) ==
    IF s # <<>> /\ s[1] \in Whitespace THEN TrimStart(Tail(s)) ELSE s

RECURSIVE TrimEnd(_)
TrimEnd(s) ==
    IF s # <<>> /\ s[Len(s)] \in Whitespace
    THEN TrimEnd(SubSeq(s, 1, Len(s) - 1))
    ELSE s

\* Variant: only the leading whitespace is dropped.
TrimStartOnly(s) == TrimStart(s)

trim(s) == TrimEnd(TrimStart(s))

\* sha256 hex text of a byte stream: non-empty, lowercase, without
\* whitespace, and different for different streams.
HexDigest(b) == <<"e">> \o [i \in 1..Len(b) |-> IF b[i] = "data" THEN "0" ELSE "1"]

\* try_digest(Path::new(local_file_path)).unwrap_or_default()
try_digest_or_default(f) == IF f.exists THEN HexDigest(f.bytes) ELSE <<>>

\* remote_file_sha.trim() != local_file_sha.trim()
DigestsDiffer(remote_file_sha, local_file_sha) ==
    trim(remote_file_sha) # trim(local_file_sha)

\* Bodies the digest URL may answer with: a digest of some artifact, nothing,
\* an upper-case digest, or a digest followed by a file name, each with
\* optional surrounding whitespace.
DigestCores ==
    {HexDigest(b) : b \in Bodies} \cup {<<>>, <<"E">>, <<"e", " ", "f">>}
LeftPads == {<<>>, <<"\n", " ">>}
RightPads == {<<>>, <<"\n">>}
RemoteTexts == {l \o c \o r : l \in LeftPads, c \in DigestCores, r \in RightPads}

\* ------------------------------------------------------------------ state
VARIABLES
    pc,                 \* position of the background task (run and its callees)
    run_result,         \* "running", or "err" once run has returned Err
    mmdb_data_dir,      \* CONFIG.common.mmdb_data_dir
    fs,                 \* the files at the paths the job names
    MAXMIND_DB_CLIENT,  \* RwLock<Option<MaxmindClient>>: the protected value
    client_lock,        \* ... and its lock state
    GEOIP_TABLE,        \* RwLock<Option<Geoip>>: the protected value
    geoip_lock,         \* ... and its lock state
    fname,              \* the path the running function works on
    maxminddb_client,   \* update_global_maxmind_client: the parsed instance
    publishes,          \* number of instances created so far
    cmp,                \* is_digest_different: its locals and result
    dl,                 \* download_file: its locals and result
    ticks,              \* interval ticks consumed
    cycle,              \* run_download_files: what the current cycle did
    publish_call,       \* update_global_maxmind_client: the current call
    reader              \* a consumer of the two handles

vars == <<pc, run_result, mmdb_data_dir, fs, MAXMIND_DB_CLIENT, client_lock,
          GEOIP_TABLE, geoip_lock, fname, maxminddb_client, publishes, cmp, dl,
          ticks, cycle, publish_call, reader>>

Unlocked == [writer |-> FALSE, readers |-> 0]

NoCmp == [result |-> "none", remote_file_sha |-> <<>>, local_file_sha |-> <<>>]
NoDl == [result |-> "none", stream |-> <<>>, total_size |-> 0, downloaded |-> 0]
NoCycle ==
    [file |-> Absent, client |-> None, geoip |-> NoGeoip,
     digest |-> "none", fetch |-> "none", publisher |-> FALSE]
NoCall == [client |-> None, geoip |-> NoGeoip, parse |-> "none"]
IdleReader == [pc |-> "idle", geoip |-> NoGeoip, client |-> None]

\* Files a previous run of the process may have left behind: none, a complete
\* database, or what an interrupted download wrote.
StartFiles == {Absent, FileOf(<<"meta">>), FileOf(<<>>), FileOf(<<"data">>)}

Init ==
    /\ pc = "start"
    /\ run_result = "running"
    /\ mmdb_data_dir \in DataDirs
    /\ fs \in [Paths -> StartFiles]
    /\ MAXMIND_DB_CLIENT = None
    /\ client_lock = Unlocked
    /\ GEOIP_TABLE = NoGeoip
    /\ geoip_lock = Unlocked
    /\ fname = <<>>
    /\ maxminddb_client = None
    /\ publishes = 0
    /\ cmp = NoCmp
    /\ dl = NoDl
    /\ ticks = 0
    /\ cycle = NoCycle
    /\ publish_call = NoCall
    /\ reader = IdleReader

\* ------------------------------------------------- update_global_maxmind_client
\* MaxmindClient::new_with_path: a database file parses when it ends with its
\* metadata section; the instance holds the bytes it was parsed from.
new_with_path(f, n) ==
    LET ok == f.exists /\ f.bytes # <<>> /\ f.bytes[Len(f.bytes)] = "meta"
    IN  [ok |-> ok, value |-> Some(n, f.bytes, ok)]

\* Variant: the Ok arm is taken whatever the parse returned.
IsOkIgnored(r) == TRUE

\* match ... { Ok(maxminddb_client) => ..., Err(e) => ... }
IsOk(r) == r.ok

\* Variant: the table is locked and assigned before the client.
OkArmGeoipFirst ==
    <<"pub_lock_geoip", "pub_assign_geoip", "pub_lock_client", "pub_assign_client",
      "pub_assign_client_end", "pub_drop_geoip", "pub_drop_client">>

\* The statements of the Ok arm, in program order: lock and assign the client,
\* lock and assign the table, then the guards go out of scope in reverse order
\* of declaration.
OkArm ==
    <<"pub_lock_client", "pub_assign_client", "pub_assign_client_end",
      "pub_lock_geoip", "pub_assign_geoip", "pub_drop_geoip", "pub_drop_client">>

\* The position after statement p of the Ok arm.
After(p) ==
    LET i == CHOOSE k \in 1..Len(OkArm) : OkArm[k] = p
    IN  IF i = Len(OkArm) THEN "pub_return" ELSE OkArm[i + 1]

\* Entry of update_global_maxmind_client(path).
EnterPublish(path) ==
    /\ pc' = "pub_parse"
    /\ fname' = path
    /\ publish_call' = [client |-> MAXMIND_DB_CLIENT, geoip |-> GEOIP_TABLE,
                        parse |-> "none"]

\* Variant: a failed parse clears the handle instead of keeping the old one.
PublishParseClearsOnErr ==
    /\ pc = "pub_parse"
    /\ LET r == new_with_path(fs[fname], publishes + 1)
       IN  IF IsOk(r)
           THEN /\ maxminddb_client' = r.value
                /\ publishes' = publishes + 1
                /\ publish_call' = [publish_call EXCEPT !.parse = "ok"]
                /\ pc' = OkArm[1]
                /\ MAXMIND_DB_CLIENT' = MAXMIND_DB_CLIENT
           ELSE /\ publish_call' = [publish_call EXCEPT !.parse = "err"]
                /\ pc' = "pub_return"
                /\ MAXMIND_DB_CLIENT' = None
                /\ UNCHANGED <<maxminddb_client, publishes>>
    /\ UNCHANGED <<run_result, mmdb_data_dir, fs, client_lock,
                   GEOIP_TABLE, geoip_lock, fname, cmp, dl, ticks, cycle, reader>>

\* match MaxmindClient::new_with_path(fname)
PublishParse ==
    /\ pc = "pub_parse"
    /\ LET r == new_with_path(fs[fname], publishes + 1)
       IN  IF IsOk(r)
           THEN /\ maxminddb_client' = r.value
                /\ publishes' = publishes + 1
                /\ publish_call' = [publish_call EXCEPT !.parse = "ok"]
                /\ pc' = OkArm[1]
           ELSE /\ publish_call' = [publish_call EXCEPT !.parse = "err"]
                /\ pc' = "pub_return"
                /\ UNCHANGED <<maxminddb_client, publishes>>
    /\ UNCHANGED <<run_result, mmdb_data_dir, fs, MAXMIND_DB_CLIENT, client_lock,
                   GEOIP_TABLE, geoip_lock, fname, cmp, dl, ticks, cycle, reader>>

\* Variant: the write guard is taken without waiting for the readers to leave.
PublishLockClientUnguarded ==
    /\ pc = "pub_lock_client"
    /\ ~client_lock.writer
    /\ client_lock' = [client_lock EXCEPT !.writer = TRUE]
    /\ pc' = After(pc)
    /\ UNCHANGED <<run_result, mmdb_data_dir, fs, MAXMIND_DB_CLIENT, GEOIP_TABLE,
                   geoip_lock, fname, maxminddb_client, publishes, cmp, dl, ticks,
                   cycle, publish_call, reader>>

\* let mut client = MAXMIND_DB_CLIENT.write().await;
PublishLockClient ==
    /\ pc = "pub_lock_client"
    /\ ~client_lock.writer
    /\ client_lock.readers = 0
    /\ client_lock' = [client_lock EXCEPT !.writer = TRUE]
    /\ pc' = After(pc)
    /\ UNCHANGED <<run_result, mmdb_data_dir, fs, MAXMIND_DB_CLIENT, GEOIP_TABLE,
                   geoip_lock, fname, maxminddb_client, publishes, cmp, dl, ticks,
                   cycle, publish_call, reader>>

\* *client = Some(maxminddb_client); the old value is dropped ...
PublishAssignClientBegin ==
    /\ pc = "pub_assign_client"
    /\ MAXMIND_DB_CLIENT' = InFlux
    /\ pc' = After(pc)
    /\ UNCHANGED <<run_result, mmdb_data_dir, fs, client_lock, GEOIP_TABLE,
                   geoip_lock, fname, maxminddb_client, publishes, cmp, dl, ticks,
                   cycle, publish_call, reader>>

\* ... and the new one moved in.
PublishAssignClientEnd ==
    /\ pc = "pub_assign_client_end"
    /\ MAXMIND_DB_CLIENT' = maxminddb_client
    /\ pc' = After(pc)
    /\ UNCHANGED <<run_result, mmdb_data_dir, fs, client_lock, GEOIP_TABLE,
                   geoip_lock, fname, maxminddb_client, publishes, cmp, dl, ticks,
                   cycle, publish_call, reader>>

\* let mut geoip = GEOIP_TABLE.write();
PublishLockGeoip ==
    /\ pc = "pub_lock_geoip"
    /\ ~geoip_lock.writer
    /\ geoip_lock.readers = 0
    /\ geoip_lock' = [geoip_lock EXCEPT !.writer = TRUE]
    /\ pc' = After(pc)
    /\ UNCHANGED <<run_result, mmdb_data_dir, fs, MAXMIND_DB_CLIENT, client_lock,
                   GEOIP_TABLE, fname, maxminddb_client, publishes, cmp, dl, ticks,
                   cycle, publish_call, reader>>

\* Geoip::new(GeoipConfig::default()).unwrap(): the table built by this publish.
Geoip_new(n) == SomeGeoip(n)

\* *geoip = Some(Geoip::new(GeoipConfig::default()).unwrap());
PublishAssignGeoip ==
    /\ pc = "pub_assign_geoip"
    /\ GEOIP_TABLE' = Geoip_new(publishes)
    /\ pc' = After(pc)
    /\ UNCHANGED <<run_result, mmdb_data_dir, fs, MAXMIND_DB_CLIENT, client_lock,
                   geoip_lock, fname, maxminddb_client, publishes, cmp, dl, ticks,
                   cycle, publish_call, reader>>

\* End of the Ok arm: the guards are dropped in reverse order of declaration,
\* geoip first ...
PublishDropGeoip ==
    /\ pc = "pub_drop_geoip"
    /\ geoip_lock' = [geoip_lock EXCEPT !.writer = FALSE]
    /\ pc' = After(pc)
    /\ UNCHANGED <<run_result, mmdb_data_dir, fs, MAXMIND_DB_CLIENT, client_lock,
                   GEOIP_TABLE, fname, maxminddb_client, publishes, cmp, dl, ticks,
                   cycle, publish_call, reader>>

\* Variant: the write guard of the client outlives the call.
PublishDropClientKeepsLock ==
    /\ pc = "pub_drop_client"
    /\ client_lock' = client_lock
    /\ pc' = After(pc)
    /\ UNCHANGED <<run_result, mmdb_data_dir, fs, MAXMIND_DB_CLIENT, GEOIP_TABLE,
                   geoip_lock, fname, maxminddb_client, publishes, cmp, dl, ticks,
                   cycle, publish_call, reader>>

\* ... then client.
PublishDropClient ==
    /\ pc = "pub_drop_client"
    /\ client_lock' = [client_lock EXCEPT !.writer = FALSE]
    /\ pc' = After(pc)
    /\ UNCHANGED <<run_result, mmdb_data_dir, fs, MAXMIND_DB_CLIENT, GEOIP_TABLE,
                   geoip_lock, fname, maxminddb_client, publishes, cmp, dl, ticks,
                   cycle, publish_call, reader>>

\* update_global_maxmind_client returns (), to run before the loop or to
\* run_download_files, which returns to the loop: the task awaits the interval.
PublishReturn ==
    /\ pc = "pub_return"
    /\ pc' = "wait_tick"
    /\ maxminddb_client' = None
    /\ publish_call' = NoCall
    /\ UNCHANGED <<run_result, mmdb_data_dir, fs, MAXMIND_DB_CLIENT, client_lock,
                   GEOIP_TABLE, geoip_lock, fname, publishes, cmp, dl, ticks, cycle,
                   reader>>

\* ---------------------------------------------------------- is_digest_different
\* One call: the GET of the digest URL or the read of its body fails (the ?
\* operators return the error), or the body is read and compared with the
\* digest of the local file.
is_digest_different ==
    /\ pc = "digest"
    /\ \/ cmp' = [NoCmp EXCEPT !.result = "err"]
       \/ \E text \in RemoteTexts :
            LET local_file_sha == try_digest_or_default(fs[fname])
            IN  cmp' = [result |-> IF DigestsDiffer(text, local_file_sha)
                                   THEN "different" ELSE "same",
                        remote_file_sha |-> text,
                        local_file_sha |-> local_file_sha]
    /\ pc' = "digest_ret"
    /\ UNCHANGED <<run_result, mmdb_data_dir, fs, MAXMIND_DB_CLIENT, client_lock,
                   GEOIP_TABLE, geoip_lock, fname, maxminddb_client, publishes, dl,
                   ticks, cycle, publish_call, reader>>

\* ---------------------------------------------------------------- download_file
\* File::create(path): creates the file or truncates the one there.
File_create(files, path) == [files EXCEPT ![path] = FileOf(<<>>)]

\* Variant: the file is created before the content length is looked at.
DownloadSendCreatesFirst ==
    /\ pc = "dl_get"
    /\ \/ /\ dl' = [NoDl EXCEPT !.result = "err_get"]
          /\ pc' = "dl_ret"
          /\ fs' = fs
       \/ /\ dl' = [NoDl EXCEPT !.result = "err_content_length"]
          /\ pc' = "dl_ret"
          /\ fs' = File_create(fs, fname)
       \/ \E body \in Bodies :
            /\ dl' = [NoDl EXCEPT !.stream = body, !.total_size = Len(body)]
            /\ pc' = "dl_create"
            /\ fs' = fs
    /\ UNCHANGED <<run_result, mmdb_data_dir, MAXMIND_DB_CLIENT, client_lock,
                   GEOIP_TABLE, geoip_lock, fname, maxminddb_client, publishes, cmp,
                   ticks, cycle, publish_call, reader>>

\* client.get(url).send() and res.content_length(): the request fails, or the
\* response declares no length, or it declares one and carries a body.
DownloadSend ==
    /\ pc = "dl_get"
    /\ \/ /\ dl' = [NoDl EXCEPT !.result = "err_get"]
          /\ pc' = "dl_ret"
       \/ /\ dl' = [NoDl EXCEPT !.result = "err_content_length"]
          /\ pc' = "dl_ret"
       \/ \E body \in Bodies :
            /\ dl' = [NoDl EXCEPT !.stream = body, !.total_size = Len(body)]
            /\ pc' = "dl_create"
    /\ fs' = fs
    /\ UNCHANGED <<run_result, mmdb_data_dir, MAXMIND_DB_CLIENT, client_lock,
                   GEOIP_TABLE, geoip_lock, fname, maxminddb_client, publishes, cmp,
                   ticks, cycle, publish_call, reader>>

DownloadCreate ==
    /\ pc = "dl_create"
    /\ \/ /\ dl' = [dl EXCEPT !.result = "err_create"]
          /\ pc' = "dl_ret"
          /\ fs' = fs
       \/ /\ fs' = File_create(fs, fname)
          /\ pc' = "dl_stream"
          /\ dl' = dl
    /\ UNCHANGED <<run_result, mmdb_data_dir, MAXMIND_DB_CLIENT, client_lock,
                   GEOIP_TABLE, geoip_lock, fname, maxminddb_client, publishes, cmp,
                   ticks, cycle, publish_call, reader>>

\* file.write_all(&chunk)
write_all(files, path, chunk) ==
    [files EXCEPT ![path] = FileOf(Append(files[path].bytes, chunk))]

Min(a, b) == IF a < b THEN a ELSE b

\* One turn of the while let loop: the stream has ended, or its next item is
\* an error, or it is a chunk whose write fails or succeeds.
DownloadChunk ==
    /\ pc = "dl_stream"
    /\ IF dl.stream = <<>>
       THEN /\ dl' = [dl EXCEPT !.result = "ok"]
            /\ pc' = "dl_ret"
            /\ fs' = fs
       ELSE \/ /\ dl' = [dl EXCEPT !.result = "err_chunk"]
               /\ pc' = "dl_ret"
               /\ fs' = fs
            \/ /\ dl' = [dl EXCEPT !.result = "err_write"]
               /\ pc' = "dl_ret"
               /\ fs' = fs
            \/ /\ fs' = write_all(fs, fname, Head(dl.stream))
               /\ dl' = [dl EXCEPT !.stream = Tail(dl.stream),
                                   !.downloaded = Min(dl.downloaded + 1, dl.total_size)]
               /\ pc' = "dl_stream"
    /\ UNCHANGED <<run_result, mmdb_data_dir, MAXMIND_DB_CLIENT, client_lock,
                   GEOIP_TABLE, geoip_lock, fname, maxminddb_client, publishes, cmp,
                   ticks, cycle, publish_call, reader>>

\* ----------------------------------------------------------- run_download_files
\* let download_files = match is_digest_different(..).await {..}; an error
\* counts as false. if download_files { download_file(..) }
\* Variant: every comparison that returned Ok asks for a download.
download_files_unless_err(result) == result # "err"

\* Variant: a failed comparison asks for a download too.
download_files_or_err(result) == result \in {"different", "err"}

download_files(result) == result = "different"

\* Variant: the error of is_digest_different is passed on with ? and ends run.
RunDownloadDecidePropagates ==
    /\ pc = "digest_ret"
    /\ cycle' = [cycle EXCEPT !.digest = cmp.result]
    /\ cmp' = NoCmp
    /\ pc' = IF cmp.result = "err" THEN "returned"
             ELSE IF download_files(cmp.result) THEN "dl_get" ELSE "wait_tick"
    /\ run_result' = IF cmp.result = "err" THEN "err" ELSE run_result
    /\ UNCHANGED <<mmdb_data_dir, fs, MAXMIND_DB_CLIENT, client_lock,
                   GEOIP_TABLE, geoip_lock, fname, maxminddb_client, publishes, dl,
                   ticks, publish_call, reader>>

RunDownloadDecide ==
    /\ pc = "digest_ret"
    /\ cycle' = [cycle EXCEPT !.digest = cmp.result]
    /\ cmp' = NoCmp
    /\ pc' = IF download_files(cmp.result) THEN "dl_get" ELSE "wait_tick"
    /\ UNCHANGED <<run_result, mmdb_data_dir, fs, MAXMIND_DB_CLIENT, client_lock,
                   GEOIP_TABLE, geoip_lock, fname, maxminddb_client, publishes, dl,
                   ticks, publish_call, reader>>

\* match download_file(..).await { Ok(()) => update_global_maxmind_client(&fname),
\*                                 Err(e) => log::error!(..) }
\* Variant: the error of download_file is passed on with ? and ends run.
RunDownloadPublishPropagates ==
    /\ pc = "dl_ret"
    /\ cycle' = [cycle EXCEPT !.fetch = dl.result, !.publisher = (dl.result = "ok")]
    /\ dl' = NoDl
    /\ IF dl.result = "ok"
       THEN EnterPublish(fname) /\ run_result' = run_result
       ELSE /\ pc' = "returned"
            /\ run_result' = "err"
            /\ UNCHANGED <<fname, publish_call>>
    /\ UNCHANGED <<mmdb_data_dir, fs, MAXMIND_DB_CLIENT, client_lock,
                   GEOIP_TABLE, geoip_lock, maxminddb_client, publishes, cmp, ticks,
                   reader>>

\* Variant: the publisher is called whatever download_file returned.
RunDownloadPublishAlways ==
    /\ pc = "dl_ret"
    /\ cycle' = [cycle EXCEPT !.fetch = dl.result, !.publisher = TRUE]
    /\ dl' = NoDl
    /\ EnterPublish(fname)
    /\ UNCHANGED <<run_result, mmdb_data_dir, fs, MAXMIND_DB_CLIENT, client_lock,
                   GEOIP_TABLE, geoip_lock, maxminddb_client, publishes, cmp, ticks,
                   reader>>

RunDownloadPublish ==
    /\ pc = "dl_ret"
    /\ cycle' = [cycle EXCEPT !.fetch = dl.result, !.publisher = (dl.result = "ok")]
    /\ dl' = NoDl
    /\ IF dl.result = "ok"
       THEN EnterPublish(fname)
       ELSE /\ pc' = "wait_tick"
            /\ UNCHANGED <<fname, publish_call>>
    /\ UNCHANGED <<run_result, mmdb_data_dir, fs, MAXMIND_DB_CLIENT, client_lock,
                   GEOIP_TABLE, geoip_lock, maxminddb_client, publishes, cmp, ticks,
                   reader>>

\* -------------------------------------------------------------------------- run
\* std::fs::create_dir_all(..)?, then the initial
\* update_global_maxmind_client(&fname) on the startup path.
\* Variant: run enters the loop without the initial load.
RunStartSkipsLoad ==
    /\ pc = "start"
    /\ \/ /\ pc' = "returned"
          /\ run_result' = "err"
       \/ /\ pc' = "wait_tick"
          /\ run_result' = run_result
    /\ UNCHANGED <<mmdb_data_dir, fs, MAXMIND_DB_CLIENT, client_lock, GEOIP_TABLE,
                   geoip_lock, fname, maxminddb_client, publishes, cmp, dl, ticks,
                   cycle, publish_call, reader>>

RunStart ==
    /\ pc = "start"
    /\ \/ /\ pc' = "returned"
          /\ run_result' = "err"
          /\ UNCHANGED <<fname, publish_call>>
       \/ /\ EnterPublish(StartupPath(mmdb_data_dir))
          /\ run_result' = run_result
    /\ UNCHANGED <<mmdb_data_dir, fs, MAXMIND_DB_CLIENT, client_lock, GEOIP_TABLE,
                   geoip_lock, maxminddb_client, publishes, cmp, dl, ticks, cycle,
                   reader>>

\* interval.tick().await; run_download_files() computes fname and calls
\* is_digest_different.
Tick ==
    /\ pc = "wait_tick"
    /\ ticks < MaxTicks
    /\ ticks' = ticks + 1
    /\ fname' = TickPath(mmdb_data_dir)
    /\ cycle' = [file |-> fs[TickPath(mmdb_data_dir)],
                 client |-> MAXMIND_DB_CLIENT, geoip |-> GEOIP_TABLE,
                 digest |-> "none", fetch |-> "none", publisher |-> FALSE]
    /\ pc' = "digest"
    /\ UNCHANGED <<run_result, mmdb_data_dir, fs, MAXMIND_DB_CLIENT, client_lock,
                   GEOIP_TABLE, geoip_lock, maxminddb_client, publishes, cmp, dl,
                   publish_call, reader>>

\* ---------------------------------------------------------------------- readers
\* A consumer reads GEOIP_TABLE under its read lock, then MAXMIND_DB_CLIENT
\* under its read lock.
ReaderLockGeoip ==
    /\ reader.pc = "idle"
    /\ ~geoip_lock.writer
    /\ geoip_lock' = [geoip_lock EXCEPT !.readers = @ + 1]
    /\ reader' = [pc |-> "geoip_locked", geoip |-> GEOIP_TABLE, client |-> None]
    /\ UNCHANGED <<pc, run_result, mmdb_data_dir, fs, MAXMIND_DB_CLIENT, client_lock,
                   GEOIP_TABLE, fname, maxminddb_client, publishes, cmp, dl, ticks,
                   cycle, publish_call>>

ReaderUnlockGeoip ==
    /\ reader.pc = "geoip_locked"
    /\ geoip_lock' = [geoip_lock EXCEPT !.readers = @ - 1]
    /\ reader' = [reader EXCEPT !.pc = "geoip_read"]
    /\ UNCHANGED <<pc, run_result, mmdb_data_dir, fs, MAXMIND_DB_CLIENT, client_lock,
                   GEOIP_TABLE, fname, maxminddb_client, publishes, cmp, dl, ticks,
                   cycle, publish_call>>

ReaderLockClient ==
    /\ reader.pc = "geoip_read"
    /\ ~client_lock.writer
    /\ client_lock' = [client_lock EXCEPT !.readers = @ + 1]
    /\ reader' = [reader EXCEPT !.pc = "client_locked", !.client = MAXMIND_DB_CLIENT]
    /\ UNCHANGED <<pc, run_result, mmdb_data_dir, fs, MAXMIND_DB_CLIENT, GEOIP_TABLE,
                   geoip_lock, fname, maxminddb_client, publishes, cmp, dl, ticks,
                   cycle, publish_call>>

ReaderUnlockClient ==
    /\ reader.pc = "client_locked"
    /\ client_lock' = [client_lock EXCEPT !.readers = @ - 1]
    /\ reader' = [reader EXCEPT !.pc = "idle"]
    /\ UNCHANGED <<pc, run_result, mmdb_data_dir, fs, MAXMIND_DB_CLIENT, GEOIP_TABLE,
                   geoip_lock, fname, maxminddb_client, publishes, cmp, dl, ticks,
                   cycle, publish_call>>

\* ------------------------------------------------------------------------ system
Next ==
    \/ RunStart
    \/ Tick
    \/ is_digest_different
    \/ RunDownloadDecide
    \/ DownloadSend
    \/ DownloadCreate
    \/ DownloadChunk
    \/ RunDownloadPublish
    \/ PublishParse
    \/ PublishLockClient
    \/ PublishAssignClientBegin
    \/ PublishAssignClientEnd
    \/ PublishLockGeoip
    \/ PublishAssignGeoip
    \/ PublishDropGeoip
    \/ PublishDropClient
    \/ PublishReturn
    \/ ReaderLockGeoip
    \/ ReaderUnlockGeoip
    \/ ReaderLockClient
    \/ ReaderUnlockClient

Spec == Init /\ [][Next]_vars

\* The steps of the task that wait for no lock; at most one is possible at a time.
JobStep ==
    \/ RunStart
    \/ Tick
    \/ is_digest_different
    \/ RunDownloadDecide
    \/ DownloadSend
    \/ DownloadCreate
    \/ DownloadChunk
    \/ RunDownloadPublish
    \/ PublishParse
    \/ PublishAssignClientBegin
    \/ PublishAssignClientEnd
    \/ PublishAssignGeoip
    \/ PublishDropGeoip
    \/ PublishDropClient
    \/ PublishReturn

\* Scheduling: the task is polled until it completes a step that can be taken
\* (every network and file operation returns); both locks hand the write guard
\* to a waiting writer in turn, however often readers come and go; a reader
\* drops a guard it holds.
Fairness ==
    /\ WF_vars(JobStep)
    /\ SF_vars(PublishLockClient)
    /\ SF_vars(PublishLockGeoip)
    /\ WF_vars(ReaderUnlockGeoip \/ ReaderUnlockClient)

\* The starts with no file or a complete database at each path.
InitComplete ==
    /\ Init
    /\ \A p \in Paths : fs[p] \in {Absent, FileOf(<<"meta">>)}

FairSpec == InitComplete /\ [][Next]_vars /\ Fairness

TypeOK ==
    /\ pc \in {"start", "returned", "wait_tick", "digest", "digest_ret", "dl_get",
               "dl_create", "dl_stream", "dl_ret", "pub_parse", "pub_lock_client",
               "pub_assign_client", "pub_assign_client_end", "pub_lock_geoip",
               "pub_assign_geoip", "pub_drop_geoip", "pub_drop_client", "pub_return"}
    /\ ticks \in 0..MaxTicks
    /\ publishes \in 0..(MaxTicks + 1)

\* ------------------------------------------------------------------ properties
\* A file that the parser accepts.
FileParses(f) == f.exists /\ f.bytes # <<>> /\ f.bytes[Len(f.bytes)] = "meta"

PublishPcs == {"pub_parse", "pub_return"} \cup {OkArm[i] : i \in 1..Len(OkArm)}

\* C1: what a reader obtains from MAXMIND_DB_CLIENT is empty or a complete
\* instance made by a successful parse: while it holds the read lock the value
\* it obtained is the handle's value, during a publish that value is the
\* instance published before the call or the newly parsed one, and the handle
\* never keeps an instance that did not parse.
C1_ReaderSeesCompleteInstance ==
    /\ reader.client.tag \in {"None", "Some"}
    /\ reader.client.complete
    /\ reader.client.tag = "Some" => FileParses(FileOf(reader.client.data))
    /\ reader.pc = "client_locked" => reader.client = MAXMIND_DB_CLIENT
    /\ (reader.pc = "client_locked" /\ publish_call.parse = "ok")
          => reader.client \in {publish_call.client, maxminddb_client}
    /\ MAXMIND_DB_CLIENT.tag = "Some"
          => /\ MAXMIND_DB_CLIENT.complete
             /\ FileParses(FileOf(MAXMIND_DB_CLIENT.data))
             /\ MAXMIND_DB_CLIENT.pub \in 1..publishes

\* A reader holds the previously published instance while the publisher, its
\* new instance parsed, waits for the write lock.
C1_Witness ==
    /\ reader.pc = "client_locked"
    /\ pc = "pub_lock_client"
    /\ reader.client.tag = "Some"
    /\ reader.client = publish_call.client
    /\ maxminddb_client.tag = "Some"

\* C2: a call of update_global_maxmind_client on a file that does not parse
\* (a missing file included) never leaves the parse and return positions,
\* takes no lock, and leaves MAXMIND_DB_CLIENT and GEOIP_TABLE as they were
\* when the call began.
C2_FailedParseKeepsState ==
    (pc \in PublishPcs /\ ~FileParses(fs[fname]))
        => /\ pc \in {"pub_parse", "pub_return"}
           /\ pc = "pub_return" => publish_call.parse = "err"
           /\ MAXMIND_DB_CLIENT = publish_call.client
           /\ GEOIP_TABLE = publish_call.geoip
           /\ ~client_lock.writer
           /\ ~geoip_lock.writer

\* The call has returned from a file that does not parse while an earlier
\* instance and its table are published.
C2_Witness ==
    /\ pc = "pub_return"
    /\ publish_call.parse = "err"
    /\ fs[fname].exists
    /\ MAXMIND_DB_CLIENT.tag = "Some"
    /\ GEOIP_TABLE.tag = "Some"

\* C3: GEOIP_TABLE is written after MAXMIND_DB_CLIENT in every publish: the
\* table of publish n is only ever present with the client of publish n or
\* later (or with the client being replaced by a later publish), and a reader
\* that read the table of publish n and then the client got the client of
\* publish n or later.
C3_GeoipAfterClient ==
    /\ GEOIP_TABLE.tag = "Some"
          => \/ MAXMIND_DB_CLIENT.tag = "InFlux"
             \/ /\ MAXMIND_DB_CLIENT.tag = "Some"
                /\ MAXMIND_DB_CLIENT.pub >= GEOIP_TABLE.pub
    /\ (reader.pc \in {"client_locked", "idle"} /\ reader.geoip.tag = "Some")
          => /\ reader.client.tag = "Some"
             /\ reader.client.pub >= reader.geoip.pub
    /\ pc = "pub_assign_geoip" => MAXMIND_DB_CLIENT = maxminddb_client

\* A reader read the table of one publish and then the client of a later one.
C3_Witness ==
    /\ reader.pc = "client_locked"
    /\ reader.geoip.tag = "Some"
    /\ reader.client.pub > reader.geoip.pub

\* C4: the publisher never holds the write lock of MAXMIND_DB_CLIENT and the
\* write lock of GEOIP_TABLE at the same time.
C4_NeverBothWriteLocks == ~(client_lock.writer /\ geoip_lock.writer)

\* C5: after a cycle whose download_file failed, the file at the local path
\* and MAXMIND_DB_CLIENT are what they were when the cycle began, and the
\* publisher was not called.
C5_FailedDownloadKeepsFile ==
    (pc = "wait_tick" /\ cycle.fetch \notin {"none", "ok"})
        => /\ fs[fname] = cycle.file
           /\ MAXMIND_DB_CLIENT = cycle.client
           /\ ~cycle.publisher

\* C6: when the response declares no content length, download_file returns
\* an error with the destination file as it was when the cycle began (not
\* created, truncated or written), and the cycle ends without a publish and
\* with MAXMIND_DB_CLIENT unchanged.
C6_NoContentLengthNoWrite ==
    /\ (pc = "dl_ret" /\ dl.result = "err_content_length")
          => /\ fs[fname] = cycle.file
             /\ MAXMIND_DB_CLIENT = cycle.client
    /\ cycle.fetch = "err_content_length"
          => /\ pc = "wait_tick"
             /\ fs[fname] = cycle.file
             /\ MAXMIND_DB_CLIENT = cycle.client
             /\ ~cycle.publisher

\* download_file has returned the content-length error over an existing,
\* non-empty file.
C6_Witness ==
    /\ pc = "dl_ret"
    /\ dl.result = "err_content_length"
    /\ cycle.file.exists
    /\ cycle.file.bytes # <<>>

\* C7: in a tick whose comparison succeeded and found the digests equal, the
\* cycle ends at once: no download, no publish, the file as it was, and
\* MAXMIND_DB_CLIENT holding the very instance (same publish number) it held
\* when the tick began.
C7_EqualDigestDoesNothing ==
    /\ (pc = "digest_ret" /\ cmp.result = "same")
          => /\ trim(cmp.remote_file_sha) = try_digest_or_default(fs[fname])
             /\ fs[fname] = cycle.file
             /\ MAXMIND_DB_CLIENT = cycle.client
    /\ cycle.digest = "same"
          => /\ pc = "wait_tick"
             /\ cycle.fetch = "none"
             /\ ~cycle.publisher
             /\ fs[fname] = cycle.file
             /\ MAXMIND_DB_CLIENT = cycle.client

\* A tick over an existing file and a published instance ended with equal
\* digests.
C7_Witness ==
    /\ pc = "wait_tick"
    /\ cycle.digest = "same"
    /\ cycle.file.exists
    /\ MAXMIND_DB_CLIENT.tag = "Some"

\* C8: in a tick whose is_digest_different returned an error, the cycle ends
\* at once with the task waiting for the next tick: no download, no publish,
\* and the file, MAXMIND_DB_CLIENT and GEOIP_TABLE as they were.
C8_DigestErrorSkipsCycle ==
    /\ (pc = "digest_ret" /\ cmp.result = "err")
          => /\ fs[fname] = cycle.file
             /\ MAXMIND_DB_CLIENT = cycle.client
             /\ GEOIP_TABLE = cycle.geoip
    /\ cycle.digest = "err"
          => /\ pc = "wait_tick"
             /\ run_result = "running"
             /\ cycle.fetch = "none"
             /\ ~cycle.publisher
             /\ fs[fname] = cycle.file
             /\ MAXMIND_DB_CLIENT = cycle.client
             /\ GEOIP_TABLE = cycle.geoip

\* A tick ended on a digest error; the file is still missing.
C8_Witness ==
    /\ pc = "wait_tick"
    /\ cycle.digest = "err"
    /\ ~fs[fname].exists

\* C9: a tick that begins with no local file and an empty handle and whose
\* digest fetch succeeds reports "different"; when its download succeeds and
\* the artifact parses, the publisher ran on the file just written and
\* MAXMIND_DB_CLIENT holds a new instance of that file at the end of the tick.
C9_FirstRefresh ==
    (/\ pc = "wait_tick"
     /\ ~cycle.file.exists
     /\ cycle.client = None
     /\ cycle.digest \in {"same", "different"})
        => /\ cycle.digest = "different"
           /\ (cycle.fetch = "ok" /\ FileParses(fs[fname]))
                 => /\ cycle.publisher
                    /\ MAXMIND_DB_CLIENT.tag = "Some"
                    /\ MAXMIND_DB_CLIENT.data = fs[fname].bytes

\* t is core with only whitespace before and after it.
Wrapped(t, core) ==
    \E a \in 0..Len(t) :
        /\ a + Len(core) <= Len(t)
        /\ \A k \in 1..a : t[k] \in Whitespace
        /\ \A k \in 1..Len(core) : t[a + k] = core[k]
        /\ \A k \in (a + Len(core) + 1)..Len(t) : t[k] \in Whitespace

\* C10: over an existing local file, a successful is_digest_different returns
\* false exactly when the remote text is the file's digest with nothing but
\* whitespace around it, and true otherwise.
C10_DifferentIffTrimmedDiffers ==
    (pc = "digest_ret" /\ cmp.result # "err" /\ fs[fname].exists)
        => (cmp.result = "same"
                <=> Wrapped(cmp.remote_file_sha, HexDigest(fs[fname].bytes)))

\* The comparison found the file's digest inside surrounding whitespace.
C10_Witness ==
    /\ pc = "digest_ret"
    /\ cmp.result = "same"
    /\ fs[fname].exists
    /\ Len(cmp.remote_file_sha) > Len(cmp.local_file_sha)

\* C11: over a missing local file a successful is_digest_different uses the
\* empty string as the local digest and returns true, whatever text the
\* digest URL returned.
C11_MissingFileForcesDownload ==
    (pc = "digest_ret" /\ cmp.result # "err" /\ ~fs[fname].exists)
        => /\ cmp.local_file_sha = <<>>
           /\ cmp.result = "different"

\* C12: run returns only when create_dir_all failed, and then with an error
\* and before anything else happened: no publisher call, no tick, no
\* comparison, no download, both handles empty.
C12_OnlyStartupFailureReturns ==
    /\ pc = "returned" <=> run_result = "err"
    /\ run_result = "err"
          => /\ ticks = 0
             /\ publishes = 0
             /\ fname = <<>>
             /\ publish_call = NoCall
             /\ cycle = NoCycle
             /\ MAXMIND_DB_CLIENT = None
             /\ GEOIP_TABLE = NoGeoip

\* run has returned the error although a database that would have loaded is
\* at the startup path.
C12_Witness ==
    /\ pc = "returned"
    /\ run_result = "err"
    /\ FileParses(fs[StartupPath(mmdb_data_dir)])

\* The positions inside a cycle or inside update_global_maxmind_client.
BusyPcs ==
    {"digest", "digest_ret", "dl_get", "dl_create", "dl_stream", "dl_ret"}
        \cup PublishPcs

DownloadPcs == {"dl_get", "dl_create", "dl_stream", "dl_ret"}

\* C14: within a tick the download runs only after the comparison of that
\* tick returned "different", and the publisher only after the download of
\* that tick returned Ok; MAXMIND_DB_CLIENT changes only inside the publisher,
\* during the initial load or in such a tick.
C14_ComparatorFetcherPublisher ==
    /\ [](/\ pc \in DownloadPcs => (ticks >= 1 /\ cycle.digest = "different")
          /\ pc \in {"digest", "digest_ret"}
                => (cycle.digest = "none" /\ cycle.fetch = "none" /\ ~cycle.publisher)
          /\ cycle.fetch # "none" => cycle.digest = "different"
          /\ cycle.publisher <=> cycle.fetch = "ok"
          /\ (pc \in PublishPcs /\ ticks >= 1) => cycle.publisher
          /\ (pc \in DownloadPcs \ {"dl_ret"}) => cycle.fetch = "none")
    /\ [][MAXMIND_DB_CLIENT' # MAXMIND_DB_CLIENT
            => /\ pc \in PublishPcs
               /\ ticks = 0 \/ (cycle.digest = "different" /\ cycle.fetch = "ok")]_vars

\* The publisher replaces an earlier instance in a tick whose comparison
\* reported a difference and whose download succeeded.
C14_Witness ==
    /\ pc = "pub_assign_client_end"
    /\ ticks >= 1
    /\ cycle.digest = "different"
    /\ cycle.fetch = "ok"
    /\ publish_call.client.tag = "Some"

\* C15: the write lock of MAXMIND_DB_CLIENT is not held while the digest is
\* checked, the artifact is downloaded or the file is parsed, nor between
\* cycles; whenever it is held the parse of the current call has already
\* succeeded.
C15_NoWriteLockWhileFetchingOrParsing ==
    /\ pc \in ({"start", "wait_tick", "digest", "digest_ret", "pub_parse"}
                  \cup DownloadPcs)
          => ~client_lock.writer
    /\ client_lock.writer
          => /\ publish_call.parse = "ok"
             /\ maxminddb_client.tag = "Some"
             /\ pc \in PublishPcs

\* A reader holds the read lock on a published instance while the artifact is
\* being streamed to disk.
C15_Witness ==
    /\ pc = "dl_stream"
    /\ dl.stream # <<>>
    /\ reader.pc = "client_locked"
    /\ reader.client.tag = "Some"

\* The results with which download_file fails.
DownloadErrors ==
    {"err_get", "err_content_length", "err_create", "err_chunk", "err_write"}

\* C16: after a cycle whose download failed, wherever it failed, every remote
\* digest text that made this cycle download (it differed from the digest of
\* the file the cycle began with) still differs from the digest of the file
\* now on disk, so the next tick that reads the same text reports "different"
\* and downloads again.
C16_FailedDownloadIsRetried ==
    (pc = "wait_tick" /\ cycle.fetch \in DownloadErrors)
        => \A text \in RemoteTexts :
              DigestsDiffer(text, try_digest_or_default(cycle.file))
                  => DigestsDiffer(text, try_digest_or_default(fs[fname]))

\* C17: before the first tick run does nothing but ensure the directory and
\* call the publisher once on the startup path (no comparison, no download);
\* when that call is over the task waits for the first tick, with the instance
\* of that file published if it parsed and with both handles empty if it is
\* absent or did not parse.
C17_StartupLoadsOnce ==
    /\ ticks = 0
          => /\ pc \in ({"start", "returned", "wait_tick"} \cup PublishPcs)
             /\ cycle = NoCycle
             /\ cmp = NoCmp
             /\ dl = NoDl
             /\ publishes <= 1
    /\ ticks >= 1 => pc \notin {"start", "returned"}
    /\ (ticks = 0 /\ pc \in (PublishPcs \cup {"wait_tick"}))
          => /\ fname = StartupPath(mmdb_data_dir)
             /\ run_result = "running"
    /\ (ticks = 0 /\ pc = "wait_tick")
          => LET f == fs[StartupPath(mmdb_data_dir)]
             IN  IF FileParses(f)
                 THEN /\ MAXMIND_DB_CLIENT = Some(1, f.bytes, TRUE)
                      /\ GEOIP_TABLE = SomeGeoip(1)
                 ELSE /\ MAXMIND_DB_CLIENT = None
                      /\ GEOIP_TABLE = NoGeoip

\* The initial load found a file that does not parse; the handle is empty and
\* the task waits for the first tick.
C17_Witness ==
    /\ ticks = 0
    /\ pc = "wait_tick"
    /\ fs[StartupPath(mmdb_data_dir)].exists
    /\ MAXMIND_DB_CLIENT = None

\* C18: the file at the local path never holds part of a stream: while a
\* download is still receiving, the path holds what it held when the cycle
\* began, and between cycles, when the next comparison will read it, it holds
\* either that or the whole body of the download that just succeeded.
C18_NoPartialFileAtFinalPath ==
    /\ (pc = "dl_stream" /\ dl.stream # <<>>) => fs[fname] = cycle.file
    /\ (pc = "wait_tick" /\ ticks >= 1)
          => \/ fs[fname] = cycle.file
             \/ cycle.fetch = "ok" /\ fs[fname].exists

\* C19: the path that a tick compares, downloads to and publishes from names
\* the file that the initial load reads, for every configured data directory.
C19_OneLocalPath ==
    /\ pc \in (BusyPcs \cup {"wait_tick"}) => fname = StartupPath(mmdb_data_dir)
    /\ (pc = "wait_tick" /\ cycle.fetch = "ok")
          => fs[StartupPath(mmdb_data_dir)] = fs[fname]

\* C20: a populated handle is never emptied: no step takes MAXMIND_DB_CLIENT
\* or GEOIP_TABLE from holding something back to None, and GEOIP_TABLE holds
\* a table only while MAXMIND_DB_CLIENT holds (or is being given) an instance.
C20_NeverEmptiedAgain ==
    /\ [][MAXMIND_DB_CLIENT.tag # "None" => MAXMIND_DB_CLIENT'.tag # "None"]_vars
    /\ [][GEOIP_TABLE.tag # "None" => GEOIP_TABLE'.tag # "None"]_vars
    /\ [](GEOIP_TABLE.tag = "Some" => MAXMIND_DB_CLIENT.tag # "None")
    /\ [](MAXMIND_DB_CLIENT.tag = "InFlux" => client_lock.writer)

\* Both handles are still populated after a second cycle whose download gave
\* a file that did not parse.
C20_Witness ==
    /\ pc = "wait_tick"
    /\ ticks = 2
    /\ cycle.publisher
    /\ ~FileParses(fs[fname])
    /\ MAXMIND_DB_CLIENT.tag = "Some"
    /\ GEOIP_TABLE.tag = "Some"

====
